---------------------------- MODULE Spec2Model ----------------------------
(***************************************************************************)
(* A model of webnative's UCAN token codec and validator                   *)
(* (src/src/did/transformers.ts) together with the did:key codec it uses.  *)
(*                                                                         *)
(* Strings are sequences of ASCII codes, byte arrays are sequences over    *)
(* 0..255.  A JavaScript value is a record [t, v]: t is its type tag and v *)
(* its content.  A function that may throw returns [ok |-> TRUE, ...] or   *)
(* [ok |-> FALSE, err |-> <kind>, ...].  A value a function computes once  *)
(* and reads several times is passed on as a parameter of the operator     *)
(* that models the rest of the function.                                   *)
(***************************************************************************)
EXTENDS Integers, Sequences, FiniteSets, TLC

VARIABLES nowMs, token, wire, proof, out

vars == <<nowMs, token, wire, proof, out>>

---------------------------------------------------------------------------
(* Sequence helpers *)

Min(a, b) == IF a <= b THEN a ELSE b

Max(a, b) == IF a >= b THEN a ELSE b

SetMin(S) == CHOOSE x \in S : \A y \in S : x <= y

SetMax(S) == CHOOSE x \in S : \A y \in S : y <= x

Drop(s, n) == SubSeq(s, n + 1, Len(s))

Take(s, n) == SubSeq(s, 1, n)

StartsWith(s, p) == Len(s) >= Len(p) /\ Take(s, Len(p)) = p

\* The least element of S, or otherwise when S is empty.
MinOr(S, otherwise) == IF S = {} THEN otherwise ELSE SetMin(S)

\* The index of the first element of s at or after position i that is c,
\* Len(s) + 1 when there is none.
IndexFrom(s, c, i) == MinOr({j \in i..Len(s) : s[j] = c}, Len(s) + 1)

---------------------------------------------------------------------------
(* ASCII *)

Str_didkeyz == <<100,105,100,58,107,101,121,58,122>>          \* "did:key:z"
Str_didweb == <<100,105,100,58,119,101,98,58>>                \* "did:web:"
Str_EdDSA == <<69,100,68,83,65>>                              \* "EdDSA"
Str_RS256 == <<82,83,50,53,54>>                               \* "RS256"
Str_UnknownAlgorithm == <<85,110,107,110,111,119,110,65,108,103,111,114,105,116,104,109>>
Str_JWT == <<74,87,84>>                                       \* "JWT"
Str_100 == <<49,46,48,46,48>>                                 \* "1.0.0"
Str_APPEND == <<65,80,80,69,78,68>>                           \* "APPEND"
Str_Star == <<42>>                                            \* "*"
Str_null == <<110,117,108,108>>                               \* "null"
Str_pub == <<47,112,117,98>>                                  \* "/pub"

\* The characters with a role in the wire format and in JSON text.
Chr == [dot |-> 46, quote |-> 34, colon |-> 58, comma |-> 44, lbrace |-> 123,
        rbrace |-> 125, lbrack |-> 91, rbrack |-> 93, minus |-> 45, eq |-> 61,
        plus |-> 43, slash |-> 47, under |-> 95, zero |-> 48, nine |-> 57,
        backslash |-> 92]

---------------------------------------------------------------------------
(* base64 (uint8arrays "base64" and "base64pad") *)

\* The character of a 6-bit value in the standard alphabet A-Z a-z 0-9 + /.
B64Char(v) ==
  IF v < 26 THEN 65 + v
  ELSE IF v < 52 THEN 97 + (v - 26)
  ELSE IF v < 62 THEN 48 + (v - 52)
  ELSE IF v = 62 THEN Chr.plus ELSE Chr.slash

\* The 6-bit value of a character, -1 for a character outside the alphabet.
B64Val(c) ==
  IF c >= 65 /\ c <= 90 THEN c - 65
  ELSE IF c >= 97 /\ c <= 122 THEN c - 97 + 26
  ELSE IF c >= 48 /\ c <= 57 THEN c - 48 + 52
  ELSE IF c = Chr.plus THEN 62
  ELSE IF c = Chr.slash THEN 63 ELSE -1

\* The byte at position i, 0 beyond the end.
ByteAt(bytes, i) == IF i <= Len(bytes) THEN bytes[i] ELSE 0

\* The character at position p (0..3) of the group that encodes the bytes
\* b0 b1 b2, of which only `have` exist.
B64GroupChar(p, have, b0, b1, b2) ==
  CASE p = 0 -> B64Char(b0 \div 4)
    [] p = 1 -> B64Char((b0 % 4) * 16 + b1 \div 16)
    [] p = 2 -> IF have < 2 THEN Chr.eq ELSE B64Char((b1 % 16) * 4 + b2 \div 64)
    [] p = 3 -> IF have < 3 THEN Chr.eq ELSE B64Char(b2 % 64)

\* uint8arrays.toString(bytes, "base64pad"): the padded encoding.
ToBase64Pad(bytes) ==
  [i \in 1..(4 * ((Len(bytes) + 2) \div 3)) |->
     B64GroupChar((i - 1) % 4,
                  Len(bytes) - 3 * ((i - 1) \div 4),
                  ByteAt(bytes, 3 * ((i - 1) \div 4) + 1),
                  ByteAt(bytes, 3 * ((i - 1) \div 4) + 2),
                  ByteAt(bytes, 3 * ((i - 1) \div 4) + 3))]

\* s without its trailing "=" characters.
StripPadding(s) ==
  Take(s, MinOr({i \in 0..Len(s) : \A j \in (i + 1)..Len(s) : s[j] = Chr.eq}, 0))

\* The byte that starts `off` bits into the 6-bit value v0 and ends in v1.
B64Byte(off, v0, v1) ==
  CASE off = 0 -> v0 * 4 + v1 \div 16
    [] off = 2 -> (v0 % 16) * 16 + v1 \div 4
    [] off = 4 -> (v0 % 4) * 64 + v1

\* The bytes of a sequence of 6-bit values: every value must be of the
\* alphabet, and the bits left over after the last whole byte must be zero.
FromSextets(v) ==
  IF \E i \in 1..Len(v) : v[i] < 0 THEN [ok |-> FALSE, err |-> "SyntaxError"]
  ELSE IF (Len(v) * 6) % 8 >= 6 THEN [ok |-> FALSE, err |-> "SyntaxError"]
  ELSE IF (Len(v) * 6) % 8 > 0 /\ v[Len(v)] % (2 ^ ((Len(v) * 6) % 8)) # 0
    THEN [ok |-> FALSE, err |-> "SyntaxError"]
  ELSE [ok |-> TRUE,
        val |-> [j \in 1..((Len(v) * 6) \div 8) |->
                   B64Byte((8 * (j - 1)) % 6,
                           v[(8 * (j - 1)) \div 6 + 1],
                           v[(8 * (j - 1)) \div 6 + 2])]]

Sextets(t) == [i \in 1..Len(t) |-> B64Val(t[i])]

\* uint8arrays.fromString(s, "base64"): trailing padding is dropped.
FromBase64(s) == FromSextets(Sextets(StripPadding(s)))

---------------------------------------------------------------------------
(* base58btc (uint8arrays "base58btc") *)

B58Alphabet ==
  <<49,50,51,52,53,54,55,56,57,65,66,67,68,69,70,71,72,74,75,76,77,78,80,81,
    82,83,84,85,86,87,88,89,90,97,98,99,100,101,102,103,104,105,106,107,109,
    110,111,112,113,114,115,116,117,118,119,120,121,122>>

\* The value of a character, -1 for a character outside the alphabet.
B58Val(c) == MinOr({i \in 1..58 : B58Alphabet[i] = c}, 0) - 1

\* The number of leading elements of s that are z.
LeadingCount(s, z) == MinOr({i \in 1..Len(s) : s[i] # z}, Len(s) + 1) - 1

\* Long division of the big-endian number s in base `from` by `to`, from
\* digit i on: the quotient's digits and the remainder.
RECURSIVE DivStep(_, _, _, _, _, _)
DivStep(s, from, to, i, carry, acc) ==
  IF i > Len(s) THEN [q |-> acc, r |-> carry]
  ELSE DivStep(s, from, to, i + 1, (carry * from + s[i]) % to,
               Append(acc, (carry * from + s[i]) \div to))

\* The digits in base `to` of the big-endian number s in base `from`, most
\* significant first and without leading zeros.
RECURSIVE BaseConvert(_, _, _)
ConvertQuotient(d, from, to) == Append(BaseConvert(d.q, from, to), d.r)

ConvertStripped(t, from, to) ==
  IF t = <<>> THEN <<>>
  ELSE ConvertQuotient(DivStep(t, from, to, 1, 0, <<>>), from, to)

BaseConvert(s, from, to) == ConvertStripped(Drop(s, LeadingCount(s, 0)), from, to)

\* `zeros` times the character "1", then the characters of the digits.
Base58Text(zeros, digits) ==
  [i \in 1..zeros |-> B58Alphabet[1]] \o
  [i \in 1..Len(digits) |-> B58Alphabet[digits[i] + 1]]

\* uint8arrays.toString(bytes, "base58btc"): each leading zero byte is a
\* "1", the rest is the number in base 58.
ToBase58btc(bytes) ==
  Base58Text(LeadingCount(bytes, 0), BaseConvert(bytes, 256, 58))

\* uint8arrays.fromString(s, "base58btc")
FromBase58btc(s) ==
  IF \E i \in 1..Len(s) : B58Val(s[i]) < 0
  THEN [ok |-> FALSE, err |-> "SyntaxError"]
  ELSE [ok |-> TRUE,
        val |-> [i \in 1..LeadingCount(s, B58Alphabet[1]) |-> 0] \o
                BaseConvert([i \in 1..Len(s) |-> B58Val(s[i])], 58, 256)]

---------------------------------------------------------------------------
(* did/util: the did:key prefix and the registry of magic bytes *)

BASE58_DID_PREFIX == Str_didkeyz

EDWARDS_DID_PREFIX == <<237, 1>>

RSA_DID_PREFIX == <<0, 245, 2>>

\* The key types the model draws from; "secp256k1" has no registered prefix.
KeyType == {"ed25519", "rsa", "secp256k1"}

\* The prefix registered for a key type, <<>> (null) when there is none.
magicBytes(type) ==
  CASE type = "ed25519" -> EDWARDS_DID_PREFIX
    [] type = "rsa" -> RSA_DID_PREFIX
    [] OTHER -> <<>>

parseMagicBytes(prefixedKey) ==
  IF StartsWith(prefixedKey, RSA_DID_PREFIX)
  THEN [ok |-> TRUE, type |-> "rsa",
        keyBuffer |-> Drop(prefixedKey, Len(RSA_DID_PREFIX))]
  ELSE IF StartsWith(prefixedKey, EDWARDS_DID_PREFIX)
  THEN [ok |-> TRUE, type |-> "ed25519",
        keyBuffer |-> Drop(prefixedKey, Len(EDWARDS_DID_PREFIX))]
  ELSE [ok |-> FALSE, err |-> "UnsupportedKeyAlgorithm"]

---------------------------------------------------------------------------
(* did/transformers *)

\* publicKeyToDid once the key is decoded and the prefix looked up.
PrefixedDid(pubKeyBuf, prefix) ==
  IF ~pubKeyBuf.ok THEN [ok |-> FALSE, err |-> pubKeyBuf.err]
  ELSE IF prefix = <<>> THEN [ok |-> FALSE, err |-> "KeyTypeNotSupported"]
  ELSE [ok |-> TRUE,
        val |-> BASE58_DID_PREFIX \o ToBase58btc(prefix \o pubKeyBuf.val)]

publicKeyToDid(publicKey, type) ==
  PrefixedDid(FromBase64(publicKey), magicBytes(type))

\* The key of the parsed bytes as unpadded "base64".
KeyOfParsed_Unpadded(parsed) ==
  IF ~parsed.ok THEN [ok |-> FALSE, err |-> parsed.err]
  ELSE [ok |-> TRUE, publicKey |-> StripPadding(ToBase64Pad(parsed.keyBuffer)),
        type |-> parsed.type]

\* didToPublicKey once the magic bytes are parsed: the key as "base64pad".
KeyOfParsed(parsed) ==
  IF ~parsed.ok THEN [ok |-> FALSE, err |-> parsed.err]
  ELSE [ok |-> TRUE, publicKey |-> ToBase64Pad(parsed.keyBuffer),
        type |-> parsed.type]

KeyOfMagicalBuf(magicalBuf) ==
  IF ~magicalBuf.ok THEN [ok |-> FALSE, err |-> magicalBuf.err]
  ELSE KeyOfParsed(parseMagicBytes(magicalBuf.val))

didToPublicKey(did) ==
  IF ~StartsWith(did, BASE58_DID_PREFIX)
  THEN [ok |-> FALSE, err |-> "NotBase58Did"]
  ELSE KeyOfMagicalBuf(FromBase58btc(Drop(did, Len(BASE58_DID_PREFIX))))

---------------------------------------------------------------------------
(* JavaScript values and JSON text *)

JStr(s) == [t |-> "str", v |-> s]

JNum(n) == [t |-> "num", v |-> n]

JArr(elems) == [t |-> "arr", v |-> elems]

\* An object: its members <<key, value>> in insertion order.
JObj(members) == [t |-> "obj", v |-> members]

JNull == [t |-> "null", v |-> 0]

JNaN == [t |-> "nan", v |-> 0]

JUndef == [t |-> "undef", v |-> 0]

\* a === b
StrictEq(a, b) == a.t = b.t /\ a.v = b.v

\* JavaScript's truthiness of a value.
Truthy(x) ==
  CASE x.t = "str" -> x.v # <<>>
    [] x.t = "num" -> x.v # 0
    [] x.t \in {"null", "undef", "nan"} -> FALSE
    [] OTHER -> TRUE

\* a || b
OrElse(a, b) == IF Truthy(a) THEN a ELSE b

\* obj[key]: the value of the last member whose key is the text key,
\* undefined without one (and for a value that is no object).
Get(obj, key) ==
  IF obj.t # "obj" THEN JUndef
  ELSE IF \A i \in 1..Len(obj.v) : obj.v[i][1] # key THEN JUndef
  ELSE obj.v[SetMax({i \in 1..Len(obj.v) : obj.v[i][1] = key})][2]

\* The keys of a header and of a payload.
Key ==
  [alg |-> <<97,108,103>>, typ |-> <<116,121,112>>, uav |-> <<117,97,118>>,
   aud |-> <<97,117,100>>, exp |-> <<101,120,112>>, fct |-> <<102,99,116>>,
   iss |-> <<105,115,115>>, nbf |-> <<110,98,102>>, prf |-> <<112,114,102>>,
   ptc |-> <<112,116,99>>, rsc |-> <<114,115,99>>]

\* The decimal digits of a natural number.
RECURSIVE Digits(_)
Digits(n) ==
  IF n < 10 THEN <<Chr.zero + n>>
  ELSE Append(Digits(n \div 10), Chr.zero + (n % 10))

NumToStr(n) == IF n < 0 THEN <<Chr.minus>> \o Digits(-n) ELSE Digits(n)

\* The parts joined by commas.
RECURSIVE JoinComma(_)
JoinComma(parts) ==
  IF parts = <<>> THEN <<>>
  ELSE IF Len(parts) = 1 THEN parts[1]
  ELSE parts[1] \o <<Chr.comma>> \o JoinComma(Tail(parts))

\* The members of an object that JSON.stringify writes.
Defined(members) == SelectSeq(members, LAMBDA m : m[2].t # "undef")

\* JSON.stringify(x).  A member whose value is undefined is left out, NaN
\* is written null; the strings of a token hold no character that JSON
\* escapes.
RECURSIVE Stringify(_)
StringifyElements(elems) ==
  JoinComma([i \in 1..Len(elems) |->
               IF elems[i].t = "undef" THEN Str_null ELSE Stringify(elems[i])])

StringifyMembers(kept) ==
  JoinComma([i \in 1..Len(kept) |->
               <<Chr.quote>> \o kept[i][1] \o <<Chr.quote, Chr.colon>> \o
               Stringify(kept[i][2])])

Stringify(x) ==
  CASE x.t = "str" -> <<Chr.quote>> \o x.v \o <<Chr.quote>>
    [] x.t = "num" -> NumToStr(x.v)
    [] x.t \in {"null", "nan"} -> Str_null
    [] x.t = "arr" -> <<Chr.lbrack>> \o StringifyElements(x.v) \o <<Chr.rbrack>>
    [] x.t = "obj" -> <<Chr.lbrace>> \o StringifyMembers(Defined(x.v)) \o <<Chr.rbrace>>

IsSpace(c) == c \in {32, 9, 10, 13}

IsDigit(c) == c >= Chr.zero /\ c <= Chr.nine

\* The first position at or after i that holds no white space.
SkipSpace(s, i) == MinOr({j \in i..Len(s) : ~IsSpace(s[j])}, Len(s) + 1)

\* The first position at or after i that holds no digit.
SkipDigits(s, i) == MinOr({j \in i..Len(s) : ~IsDigit(s[j])}, Len(s) + 1)

\* The number written by the digits at positions i..j.
RECURSIVE DigitsValue(_, _, _)
DigitsValue(s, i, j) ==
  IF i > j THEN 0 ELSE DigitsValue(s, i, j - 1) * 10 + (s[j] - Chr.zero)

Fail == [ok |-> FALSE, err |-> "SyntaxError"]

\* The string literal that opens at position i and closes at `close`: its
\* content and the position after it.  The model's texts hold no escape.
StringUpTo(s, i, close) ==
  IF i > Len(s) \/ close > Len(s) THEN Fail
  ELSE IF s[i] # Chr.quote THEN Fail
  ELSE IF \E j \in (i + 1)..(close - 1) : s[j] = Chr.backslash \/ s[j] < 32
    THEN Fail
  ELSE [ok |-> TRUE, val |-> SubSeq(s, i + 1, close - 1), next |-> close + 1]

ParseString(s, i) == StringUpTo(s, i, IndexFrom(s, Chr.quote, i + 1))

StringValue(r) ==
  IF r.ok THEN [ok |-> TRUE, val |-> JStr(r.val), next |-> r.next] ELSE Fail

\* The integer whose digits are at positions d..(e - 1).
NumberValue(s, neg, d, e) ==
  IF e = d THEN Fail
  ELSE IF e - d > 1 /\ s[d] = Chr.zero THEN Fail
  ELSE [ok |-> TRUE, next |-> e,
        val |-> JNum(IF neg THEN -DigitsValue(s, d, e - 1)
                     ELSE DigitsValue(s, d, e - 1))]

ParseNumber(s, i) ==
  IF s[i] = Chr.minus THEN NumberValue(s, TRUE, i + 1, SkipDigits(s, i + 1))
  ELSE NumberValue(s, FALSE, i, SkipDigits(s, i))

\* JSON's grammar over strings, integers, null, arrays and objects: the
\* value that starts at position i and the position after it.
RECURSIVE ParseValue(_, _), ParseElements(_, _, _), ParseMembers(_, _, _)
\* After an element: "]" ends the array, "," brings the next element.
ElementsNext(s, j, acc) ==
  IF j > Len(s) THEN Fail
  ELSE IF s[j] = Chr.rbrack THEN [ok |-> TRUE, val |-> JArr(acc), next |-> j + 1]
  ELSE IF s[j] = Chr.comma THEN ParseElements(s, j + 1, acc)
  ELSE Fail

ElementParsed(s, e, acc) ==
  IF ~e.ok THEN Fail
  ELSE ElementsNext(s, SkipSpace(s, e.next), Append(acc, e.val))

\* After a member: "}" ends the object, "," brings the next member.
MembersNext(s, j, acc) ==
  IF j > Len(s) THEN Fail
  ELSE IF s[j] = Chr.rbrace THEN [ok |-> TRUE, val |-> JObj(acc), next |-> j + 1]
  ELSE IF s[j] = Chr.comma THEN ParseMembers(s, j + 1, acc)
  ELSE Fail

MemberParsed(s, k, e, acc) ==
  IF ~e.ok THEN Fail
  ELSE MembersNext(s, SkipSpace(s, e.next), Append(acc, <<k.val, e.val>>))

\* After a member's key, at position c: ":" and the member's value.
MemberValue(s, k, c, acc) ==
  IF c > Len(s) THEN Fail
  ELSE IF s[c] # Chr.colon THEN Fail
  ELSE MemberParsed(s, k, ParseValue(s, c + 1), acc)

KeyParsed(s, k, acc) ==
  IF ~k.ok THEN Fail ELSE MemberValue(s, k, SkipSpace(s, k.next), acc)

\* The elements of an array whose first element starts at or after j.
ArrayFrom(s, j) ==
  IF j <= Len(s) /\ s[j] = Chr.rbrack
  THEN [ok |-> TRUE, val |-> JArr(<<>>), next |-> j + 1]
  ELSE ParseElements(s, j, <<>>)

ObjectFrom(s, j) ==
  IF j <= Len(s) /\ s[j] = Chr.rbrace
  THEN [ok |-> TRUE, val |-> JObj(<<>>), next |-> j + 1]
  ELSE ParseMembers(s, j, <<>>)

ValueAt(s, i) ==
  IF i > Len(s) THEN Fail
  ELSE IF s[i] = Chr.quote THEN StringValue(ParseString(s, i))
  ELSE IF IsDigit(s[i]) \/ s[i] = Chr.minus THEN ParseNumber(s, i)
  ELSE IF Len(s) >= i + 3 /\ SubSeq(s, i, i + 3) = Str_null
    THEN [ok |-> TRUE, val |-> JNull, next |-> i + 4]
  ELSE IF s[i] = Chr.lbrack THEN ArrayFrom(s, SkipSpace(s, i + 1))
  ELSE IF s[i] = Chr.lbrace THEN ObjectFrom(s, SkipSpace(s, i + 1))
  ELSE Fail

ParseValue(s, i) == ValueAt(s, SkipSpace(s, i))

ParseElements(s, i, acc) == ElementParsed(s, ParseValue(s, i), acc)

ParseMembers(s, i, acc) == KeyParsed(s, ParseString(s, SkipSpace(s, i)), acc)

\* The value is the whole text when only white space follows it.
WholeText(text, r) ==
  IF ~r.ok THEN Fail
  ELSE IF SkipSpace(text, r.next) <= Len(text) THEN Fail
  ELSE [ok |-> TRUE, val |-> r.val]

\* JSON.parse(text)
JSONparse(text) == WholeText(text, ParseValue(text, 1))

---------------------------------------------------------------------------
(* common/base64: the URL-safe, unpadded form *)

ReplaceChar(s, from, to) == [i \in 1..Len(s) |-> IF s[i] = from THEN to ELSE s[i]]

makeUrlSafe(a) ==
  StripPadding(ReplaceChar(ReplaceChar(a, Chr.slash, Chr.under), Chr.plus, Chr.minus))

makeUrlUnsafe(a) ==
  ReplaceChar(ReplaceChar(a, Chr.under, Chr.slash), Chr.minus, Chr.plus)

urlEncode(str) == makeUrlSafe(ToBase64Pad(str))

urlDecode(b64) == FromBase64(makeUrlUnsafe(b64))

---------------------------------------------------------------------------
(* The signing capability: a keystore and the verifiers *)

\* A digest of a message: every character counts, weighted by its place.
RECURSIVE WeightedSum(_, _, _)
WeightedSum(s, lo, hi) ==
  IF lo > hi THEN 0
  ELSE IF lo = hi THEN (lo * s[lo]) % 65521
  ELSE (WeightedSum(s, lo, (lo + hi) \div 2) +
        WeightedSum(s, (lo + hi) \div 2 + 1, hi)) % 65521

DigestBytes(d) == <<d \div 256, d % 256>>

Digest(message) == DigestBytes(WeightedSum(message, 1, Len(message)))

\* The signature bytes the holder of a key of this type makes of a message.
SignatureOf(type, key, message) ==
  <<IF type = "rsa" THEN 2 ELSE 1>> \o key \o Digest(message)

rsaVerify(message, signature, publicKey) ==
  signature = SignatureOf("rsa", publicKey, message)

ed25519Verify(message, signature, publicKey) ==
  signature = SignatureOf("ed25519", publicKey, message)

\* A keystore ks is [alg, key]: its configured type and its write key.
ksPublicWriteKey(ks) == ToBase64Pad(ks.key)

ksGetAlg(ks) == ks.alg

ksSign(ks, message) == ToBase64Pad(SignatureOf(ks.alg, ks.key, message))

\* did.ucan(), an alias of did.write()
write(ks) == publicKeyToDid(ksPublicWriteKey(ks), ksGetAlg(ks))

\* The verifier of the key's type applied; an unknown type fails closed.
VerifyWithKey(data, type, keyBytes, sigBytes) ==
  CASE type = "ed25519" -> ed25519Verify(data, sigBytes, keyBytes)
    [] type = "rsa" -> rsaVerify(data, sigBytes, keyBytes)
    [] OTHER -> FALSE

VerifyResolved(data, k, sig) ==
  IF ~k.ok \/ ~sig.ok THEN FALSE
  ELSE VerifyWithKey(data, k.type, FromBase64(k.publicKey).val, sig.val)

\* did/validation: true when the signature is the issuer's signature of data.
verifySignedData(data, did, signature) ==
  IF did.t # "str" THEN FALSE
  ELSE VerifyResolved(data, didToPublicKey(did.v), FromBase64(signature))

---------------------------------------------------------------------------
(* ucan *)

jwtAlgorithm(cryptoSystem) ==
  CASE cryptoSystem = "ed25519" -> JStr(Str_EdDSA)
    [] cryptoSystem = "rsa" -> JStr(Str_RS256)
    [] OTHER -> JNull

encodeHeader(header) == urlEncode(Stringify(header))

encodePayload(payload) == urlEncode(Stringify(payload))

\* `${encodedHeader}.${encodedPayload}`: the text a signature covers.
SigningInput(header, payload) ==
  encodeHeader(header) \o <<Chr.dot>> \o encodePayload(payload)

sign(ks, header, payload) ==
  makeUrlSafe(ksSign(ks, SigningInput(header, payload)))

\* The position of the k-th separator of those at the positions `at` of a
\* string of length n: 0 before the first, n + 1 after the last.
SepPos(at, n, k) ==
  IF k = 0 THEN 0
  ELSE IF k > Cardinality(at) THEN n + 1
  ELSE CHOOSE i \in at : Cardinality({j \in at : j < i}) = k - 1

SplitAt(s, at) ==
  [k \in 1..(Cardinality(at) + 1) |->
     SubSeq(s, SepPos(at, Len(s), k - 1) + 1, SepPos(at, Len(s), k) - 1)]

\* s.split(sep): the pieces of s between the separators.
Split(s, sep) == SplitAt(s, {i \in 1..Len(s) : s[i] = sep})

ParseDecoded(text) ==
  IF ~text.ok THEN [ok |-> FALSE, err |-> text.err] ELSE JSONparse(text.val)

\* JSON.parse(base64.urlDecode(segment))
ParseSegment(segment) == ParseDecoded(urlDecode(segment))

\* decode once header and payload are parsed: split[2] || null is the
\* signature.
DecodedParts(split, header, payload) ==
  IF ~header.ok THEN [ok |-> FALSE, err |-> header.err]
  ELSE IF ~payload.ok THEN [ok |-> FALSE, err |-> payload.err]
  ELSE [ok |-> TRUE,
        val |-> [header |-> header.val,
                 payload |-> payload.val,
                 signature |-> IF Len(split) >= 3 /\ split[3] # <<>>
                               THEN JStr(split[3]) ELSE JNull]]

\* decode once the string is split: split[1] of a string without a dot is
\* undefined, and base64.urlDecode throws on it.
DecodeSplit(split) ==
  DecodedParts(split, ParseSegment(split[1]),
               IF Len(split) < 2 THEN [ok |-> FALSE, err |-> "TypeError"]
               ELSE ParseSegment(split[2]))

decode(ucan) == DecodeSplit(Split(ucan, Chr.dot))

\* The text a value becomes when it is added to a string.
ToText(x) == IF x.t = "str" THEN x.v ELSE Str_null

encode(u) ==
  encodeHeader(u.header) \o <<Chr.dot>> \o
  encodePayload(u.payload) \o <<Chr.dot>> \o
  ToText(u.signature)

MsPerSecond == 1000

\* Math.floor(Date.now() / 1000)
CurrentTimeInSeconds(ms) == ms \div MsPerSecond

\* a <= b for a value a and a number b
LessEq(a, b) ==
  CASE a.t = "num" -> a.v <= b
    [] a.t = "null" -> 0 <= b
    [] OTHER -> FALSE

\* A check of expiry with < in place of <=.
isExpired_Strict(u, ms) ==
  Get(u.payload, Key.exp).t = "num" /\
  Get(u.payload, Key.exp).v < CurrentTimeInSeconds(ms)

isExpired(u, ms) == LessEq(Get(u.payload, Key.exp), CurrentTimeInSeconds(ms))

\* Math.min(a, b) and Math.max(a, b) for a value a and a number b
MathMin(a, b) ==
  CASE a.t = "num" -> JNum(Min(a.v, b))
    [] a.t = "null" -> JNum(Min(0, b))
    [] OTHER -> JNaN

MathMax(a, b) ==
  CASE a.t = "num" -> JNum(Max(a.v, b))
    [] a.t = "null" -> JNum(Max(0, b))
    [] OTHER -> JNaN

ClockSkewSeconds == 60

DefaultLifetimeInSeconds == 30

\* proof && decode(proof)
DecodedProof(prf) == IF Truthy(prf) THEN decode(prf.v) ELSE [ok |-> TRUE]

\* issuer || await did.ucan()
IssuerOr(issuer, ks) ==
  IF Truthy(issuer) THEN [ok |-> TRUE, val |-> issuer.v] ELSE write(ks)

Header(ksAlg) ==
  JObj(<< <<Key.alg, OrElse(jwtAlgorithm(ksAlg), JStr(Str_UnknownAlgorithm))>>,
          <<Key.typ, JStr(Str_JWT)>>,
          <<Key.uav, JStr(Str_100)>> >>)

\* expiration || (currentTimeInSeconds + lifetimeInSeconds)
RequestedExp(params, currentTimeInSeconds) ==
  IF Truthy(params.expiration) THEN params.expiration.v
  ELSE currentTimeInSeconds + params.lifetimeInSeconds

\* Timestamps with nbf left at now - 60 whatever the proof's nbf.
Timestamps_NbfNotNarrowed(exp, nbf, hasProof, prf) ==
  [exp |-> IF hasProof THEN MathMin(Get(prf, Key.exp), exp) ELSE JNum(exp),
   nbf |-> JNum(nbf)]

\* The timestamps: narrowed to the proof's window when there is a proof.
Timestamps(exp, nbf, hasProof, prf) ==
  [exp |-> IF hasProof THEN MathMin(Get(prf, Key.exp), exp) ELSE JNum(exp),
   nbf |-> IF hasProof THEN MathMax(Get(prf, Key.nbf), nbf) ELSE JNum(nbf)]

Payload(params, ts, iss, hasProof, prf) ==
  JObj(<< <<Key.aud, params.audience>>,
          <<Key.exp, ts.exp>>,
          <<Key.fct, params.facts>>,
          <<Key.iss, JStr(iss)>>,
          <<Key.nbf, ts.nbf>>,
          <<Key.prf, OrElse(params.proof, JNull)>>,
          <<Key.ptc, params.potency>>,
          <<Key.rsc, IF Truthy(params.resource) THEN params.resource
                     ELSE IF hasProof THEN Get(prf, Key.rsc)
                     ELSE JStr(Str_Star)>> >>)

\* addSignature ? await sign(header, payload) : null
Signed(ks, addSignature, header, payload) ==
  [header |-> header, payload |-> payload,
   signature |-> IF addSignature THEN JStr(sign(ks, header, payload)) ELSE JNull]

\* build once the proof is decoded and the issuer is known.
BuildWith(ks, currentTimeInSeconds, params, decodedProof, iss) ==
  IF ~decodedProof.ok THEN [ok |-> FALSE, err |-> decodedProof.err]
  ELSE IF ~iss.ok THEN [ok |-> FALSE, err |-> iss.err]
  ELSE [ok |-> TRUE,
        val |-> Signed(ks, params.addSignature, Header(ksGetAlg(ks)),
                       Payload(params,
                               Timestamps(RequestedExp(params, currentTimeInSeconds),
                                          currentTimeInSeconds - ClockSkewSeconds,
                                          Truthy(params.proof),
                                          IF Truthy(params.proof)
                                          THEN decodedProof.val.payload ELSE JUndef),
                               iss.val,
                               Truthy(params.proof),
                               IF Truthy(params.proof)
                               THEN decodedProof.val.payload ELSE JUndef))]

\* build(params) at Date.now() = ms with the keystore ks.  params.issuer,
\* params.expiration, params.proof and params.resource are undefined when
\* the caller leaves them out.
build(ks, ms, params) ==
  BuildWith(ks, CurrentTimeInSeconds(ms), params, DecodedProof(params.proof),
            IssuerOr(params.issuer, ks))

\* isValid(ucan): the verdict, or the error thrown, and the number of calls
\* of isValid made, this one included.
RECURSIVE isValid(_)
Deeper(r) == [r EXCEPT !.calls = @ + 1]

\* A verdict on the proof without the comparison of its aud with the
\* issuer.
ProofVerdict_NoContinuity(iss, prf) ==
  IF ~prf.ok THEN [ok |-> FALSE, err |-> prf.err, calls |-> 1]
  ELSE IF prf.val.payload.t = "null" THEN [ok |-> FALSE, err |-> "TypeError", calls |-> 1]
  ELSE Deeper(isValid(prf.val))

\* The lines after decode(ucan.payload.prf).
ProofVerdict(iss, prf) ==
  IF ~prf.ok THEN [ok |-> FALSE, err |-> prf.err, calls |-> 1]
  ELSE IF prf.val.payload.t = "null" THEN [ok |-> FALSE, err |-> "TypeError", calls |-> 1]
  ELSE IF ~StrictEq(Get(prf.val.payload, Key.aud), iss)
    THEN [ok |-> TRUE, val |-> FALSE, calls |-> 1]
  ELSE Deeper(isValid(prf.val))

\* A verdict with the answer of verifySignedData not looked at.
Verdict_NoSignature(a, iss, p) ==
  IF ~Truthy(p) THEN [ok |-> TRUE, val |-> TRUE, calls |-> 1]
  ELSE IF p.t # "str" THEN [ok |-> FALSE, err |-> "TypeError", calls |-> 1]
  ELSE ProofVerdict(iss, decode(p.v))

\* The lines after verifySignedData: a is its answer, p is payload.prf.
Verdict(a, iss, p) ==
  IF ~a THEN [ok |-> TRUE, val |-> FALSE, calls |-> 1]
  ELSE IF ~Truthy(p) THEN [ok |-> TRUE, val |-> TRUE, calls |-> 1]
  ELSE IF p.t # "str" THEN [ok |-> FALSE, err |-> "TypeError", calls |-> 1]
  ELSE ProofVerdict(iss, decode(p.v))

isValid(u) ==
  IF u.payload.t = "null" THEN [ok |-> FALSE, err |-> "TypeError", calls |-> 1]
  ELSE Verdict(verifySignedData(SigningInput(u.header, u.payload),
                                Get(u.payload, Key.iss),
                                makeUrlUnsafe(OrElse(u.signature, JStr(<<>>)).v)),
               Get(u.payload, Key.iss),
               Get(u.payload, Key.prf))

\* The error extractPayload throws in place of any error of the parse.
Caught(p, level) ==
  IF p.ok THEN p ELSE [ok |-> FALSE, err |-> "InvalidUCAN", level |-> level]

\* JSON.parse(base64.urlDecode(ucan.split(".")[1]))
PayloadOfSplit(split) == IF Len(split) < 2 THEN Fail ELSE ParseSegment(split[2])

\* The payload of an encoded UCAN, or the error that names the level.
extractPayload(ucan, level) ==
  IF ucan.t # "str" THEN [ok |-> FALSE, err |-> "InvalidUCAN", level |-> level]
  ELSE Caught(PayloadOfSplit(Split(ucan.v, Chr.dot)), level)

RECURSIVE rootIssuer(_, _)
\* A walk that does not pass the level on.
RootOf_LevelLost(p, level) ==
  IF ~p.ok THEN p
  ELSE IF p.val.t = "null" THEN [ok |-> FALSE, err |-> "TypeError", level |-> level]
  ELSE IF Truthy(Get(p.val, Key.prf))
    THEN rootIssuer(Get(p.val, Key.prf), level)
  ELSE [ok |-> TRUE, val |-> Get(p.val, Key.iss), level |-> level]

\* rootIssuer after extractPayload.
RootOf(p, level) ==
  IF ~p.ok THEN p
  ELSE IF p.val.t = "null" THEN [ok |-> FALSE, err |-> "TypeError", level |-> level]
  ELSE IF Truthy(Get(p.val, Key.prf))
    THEN rootIssuer(Get(p.val, Key.prf), level + 1)
  ELSE [ok |-> TRUE, val |-> Get(p.val, Key.iss), level |-> level]

rootIssuer(ucan, level) == RootOf(extractPayload(ucan, level), level)

---------------------------------------------------------------------------
(* State shared by the specifications *)

\* No token is held.
NoToken == [some |-> FALSE]

Held(u) == [some |-> TRUE, ucan |-> u]

\* No proof is at hand.  A proof at hand is [str, ucan, links]: the encoded
\* token, the token it encodes and the number of tokens in its chain.
NoProof == [str |-> JUndef, ucan |-> NoToken, links |-> 0]

Idle ==
  /\ token = NoToken
  /\ wire = <<>>
  /\ proof = NoProof
  /\ out = [op |-> "none"]

\* Date.now() when the model starts: 1000 seconds.
StartMs == 1000 * MsPerSecond

\* The keystores of the parties, and their identifiers.
KA == [alg |-> "ed25519", key |-> <<7>>]

KB == [alg |-> "rsa", key |-> <<0, 9>>]

DA == write(KA).val

DB == write(KB).val

\* The parameters of build with the defaults of its signature.
Params(audience) ==
  [addSignature |-> TRUE, audience |-> JStr(audience), facts |-> JArr(<<>>),
   issuer |-> JUndef, lifetimeInSeconds |-> DefaultLifetimeInSeconds,
   expiration |-> JUndef, potency |-> JStr(Str_APPEND), proof |-> JUndef,
   resource |-> JUndef]

Exp(u) == Get(u.payload, Key.exp)

Nbf(u) == Get(u.payload, Key.nbf)

Iss(u) == Get(u.payload, Key.iss)

Prf(u) == Get(u.payload, Key.prf)

---------------------------------------------------------------------------
(* The did:key codec applied to bounded keys *)

MaxKeyLen == 3

ByteValues == {0, 1, 237, 255}

KeyBuffers == UNION {[1..n -> ByteValues] : n \in 0..MaxKeyLen}

\* Identifiers that are not did:key:z... : a prefix character lost, the
\* whole prefix lost, another method.
Foreign(did) ==
  {Tail(did), Drop(did, Len(BASE58_DID_PREFIX)),
   Str_didweb \o Drop(did, Len(BASE58_DID_PREFIX))}

PublicKeyToDid ==
  \E buf \in KeyBuffers, type \in KeyType :
    /\ out.op = "none"
    /\ out' = [op |-> "publicKeyToDid", publicKey |-> ToBase64Pad(buf),
               type |-> type, res |-> publicKeyToDid(ToBase64Pad(buf), type)]
    /\ UNCHANGED <<nowMs, token, wire, proof>>

\* The identifier just made is converted back.
DidToPublicKey ==
  /\ out.op = "publicKeyToDid"
  /\ out.res.ok
  /\ out' = [op |-> "didToPublicKey", from |-> "publicKeyToDid",
             publicKey |-> out.publicKey, type |-> out.type,
             did |-> out.res.val, res |-> didToPublicKey(out.res.val)]
  /\ UNCHANGED <<nowMs, token, wire, proof>>

\* An identifier of another form is converted.
DidToPublicKeyForeign ==
  /\ out.op = "publicKeyToDid"
  /\ out.res.ok
  /\ \E did \in Foreign(out.res.val) :
       out' = [op |-> "didToPublicKey", from |-> "foreign",
               publicKey |-> out.publicKey, type |-> out.type,
               did |-> did, res |-> didToPublicKey(did)]
  /\ UNCHANGED <<nowMs, token, wire, proof>>

InitDid == nowMs = StartMs /\ Idle

NextDid == PublicKeyToDid \/ DidToPublicKey \/ DidToPublicKeyForeign

SpecDid == InitDid /\ [][NextDid]_vars

\* The key types with a registered prefix.
Registered == {"ed25519", "rsa"}

\* C10: converting a public key of a supported type to a DID and back gives
\* the same key and the same type; publicKeyToDid fails for a type without a
\* registered prefix; didToPublicKey fails for an identifier that does not
\* start with did:key:z.
C10_DidRoundTrip ==
  /\ out.op = "publicKeyToDid" =>
       IF out.type \in Registered THEN out.res.ok
       ELSE ~out.res.ok /\ out.res.err = "KeyTypeNotSupported"
  /\ (out.op = "didToPublicKey" /\ out.from = "publicKeyToDid") =>
       /\ out.res.ok
       /\ out.res.publicKey = out.publicKey
       /\ out.res.type = out.type
  /\ (out.op = "didToPublicKey" /\ ~StartsWith(out.did, Str_didkeyz)) =>
       ~out.res.ok /\ out.res.err = "NotBase58Did"

\* An RSA key that starts with a zero byte and needs padding came back.
C10_Witness ==
  /\ out.op = "didToPublicKey"
  /\ out.from = "publicKeyToDid"
  /\ out.type = "rsa"
  /\ out.publicKey = ToBase64Pad(<<0, 255>>)
  /\ out.res.ok

---------------------------------------------------------------------------
(* Validity windows: build against a clock, with proofs issued under       *)
(* other clocks                                                            *)

\* The clock advances by half a second, at most MaxTicks times.
MaxTicks == 4

TickMs == MsPerSecond \div 2

\* How far, in seconds, the clock of a proof's issuer is from this one.
RemoteSkewSeconds == {-100, 0, 10, 100}

Lifetimes == {1, DefaultLifetimeInSeconds}

Expirations == {JUndef, JNum(0), JNum(CurrentTimeInSeconds(StartMs) + 1)}

Tick ==
  /\ nowMs + TickMs <= StartMs + MaxTicks * TickMs
  /\ nowMs' = nowMs + TickMs
  /\ UNCHANGED <<token, wire, proof, out>>

\* The proof that KA built for KB when KA's clock read ms.
Received(r) == [str |-> JStr(encode(r.val)), ucan |-> Held(r.val), links |-> 1]

\* A proof arrives.
ReceiveProof ==
  /\ proof.links = 0
  /\ ~token.some
  /\ \E skew \in RemoteSkewSeconds :
       proof' = Received(build(KA, nowMs + skew * MsPerSecond, Params(DB)))
  /\ UNCHANGED <<nowMs, token, wire, out>>

TimedParams(life, expn, prf) ==
  [Params(DA) EXCEPT !.lifetimeInSeconds = life, !.expiration = expn, !.proof = prf]

Built(params, prf, r) ==
  /\ r.ok
  /\ token' = Held(r.val)
  /\ out' = [op |-> "build", ms |-> nowMs, params |-> params, prf |-> prf,
             res |-> r.val]

BuildTimed ==
  /\ ~token.some
  /\ \E life \in Lifetimes, expn \in Expirations :
       \/ Built(TimedParams(life, expn, JUndef), NoToken,
                build(KB, nowMs, TimedParams(life, expn, JUndef)))
       \/ /\ proof.links > 0
          /\ Built(TimedParams(life, expn, proof.str), proof.ucan,
                   build(KB, nowMs, TimedParams(life, expn, proof.str)))
  /\ UNCHANGED <<nowMs, wire, proof>>

IsExpired ==
  /\ token.some
  /\ out' = [op |-> "isExpired", ucan |-> token.ucan, ms |-> nowMs,
             res |-> isExpired(token.ucan, nowMs)]
  /\ UNCHANGED <<nowMs, token, wire, proof>>

InitTime == nowMs = StartMs /\ Idle

NextTime == Tick \/ ReceiveProof \/ BuildTimed \/ IsExpired

SpecTime == InitTime /\ [][NextTime]_vars

\* The expiry build was asked for: the explicit one, or now + lifetime.
Requested(params, ms) ==
  IF params.expiration.t = "num" /\ params.expiration.v # 0
  THEN params.expiration.v
  ELSE ms \div 1000 + params.lifetimeInSeconds

\* C2: a token built with a proof has exp = min(requested expiry, proof.exp)
\* and nbf = max(now - 60, proof.nbf): its exp never exceeds the proof's and
\* its nbf is never earlier than the proof's.
C2_WindowIsIntersection ==
  (out.op = "build" /\ out.prf.some) =>
    /\ Exp(out.res).v =
         (IF Requested(out.params, out.ms) <= Exp(out.prf.ucan).v
          THEN Requested(out.params, out.ms) ELSE Exp(out.prf.ucan).v)
    /\ Nbf(out.res).v =
         (IF out.ms \div 1000 - 60 >= Nbf(out.prf.ucan).v
          THEN out.ms \div 1000 - 60 ELSE Nbf(out.prf.ucan).v)
    /\ Exp(out.res).v <= Exp(out.prf.ucan).v
    /\ Nbf(out.res).v >= Nbf(out.prf.ucan).v

\* A token was built whose proof expires before the requested expiry: its
\* exp is the proof's.
C2_Witness ==
  /\ out.op = "build"
  /\ out.prf.some
  /\ Exp(out.prf.ucan).v < Requested(out.params, out.ms)
  /\ Exp(out.res).v = Exp(out.prf.ucan).v

\* C3: every token build returns has exp >= nbf.
C3_ExpNotBeforeNbf ==
  out.op = "build" => Exp(out.res).v >= Nbf(out.res).v

\* C9: isExpired(token) is true exactly when the token's own exp is at or
\* before the current time in whole seconds, whatever its proof's window
\* and whatever isValid says of it.
C9_ExpiredIffExpAtOrBeforeNow ==
  out.op = "isExpired" =>
    (out.res <=> Exp(out.ucan).v <= out.ms \div 1000)

\* isExpired said true at exp = now of a token that isValid accepts and
\* whose proof has not expired.
C9_Witness ==
  /\ out.op = "isExpired"
  /\ out.res
  /\ Exp(out.ucan).v = out.ms \div 1000
  /\ Truthy(Prf(out.ucan))
  /\ proof.ucan.some
  /\ Exp(proof.ucan.ucan).v > out.ms \div 1000
  /\ isValid(out.ucan).val

---------------------------------------------------------------------------
(* The wire format: tokens built, encoded, sent and decoded                *)

FactChoices ==
  <<JArr(<<>>),
    JArr(<<JObj(<< <<Key.rsc, JStr(Str_pub)>>, <<Key.exp, JNum(7)>> >>), JNull>>)>>

ResourceChoices == <<JUndef, JStr(Str_pub)>>

\* A proof KA issued to KB.
IssuedProof == JStr(encode(build(KA, StartMs, Params(DB)).val))

\* A proof some party assembled and signed: its payload names no exp and
\* no nbf.
UnwindowedPayload ==
  JObj(<< <<Key.aud, JStr(DB)>>, <<Key.fct, JArr(<<>>)>>, <<Key.iss, JStr(DA)>>,
          <<Key.prf, JNull>>, <<Key.ptc, JStr(Str_APPEND)>>,
          <<Key.rsc, JStr(Str_Star)>> >>)

UnwindowedProof ==
  JStr(encode(Signed(KA, TRUE, Header(ksGetAlg(KA)), UnwindowedPayload)))

ProofChoices == <<JUndef, IssuedProof, UnwindowedProof>>

CodecParams(facts, resource, addSignature, prf) ==
  [Params(DA) EXCEPT !.facts = facts, !.resource = resource,
                     !.addSignature = addSignature, !.proof = prf]

BuiltForWire(r) ==
  /\ r.ok
  /\ token' = Held(r.val)
  /\ out' = [op |-> "build"]

BuildForWire ==
  /\ ~token.some
  /\ \E f \in 1..Len(FactChoices), r \in 1..Len(ResourceChoices),
        addSignature \in BOOLEAN, p \in 1..Len(ProofChoices) :
       BuiltForWire(build(KB, nowMs,
                          CodecParams(FactChoices[f], ResourceChoices[r],
                                      addSignature, ProofChoices[p])))
  /\ UNCHANGED <<nowMs, wire, proof>>

Encode ==
  /\ token.some
  /\ wire = <<>>
  /\ wire' = encode(token.ucan)
  /\ out' = [op |-> "encode"]
  /\ UNCHANGED <<nowMs, token, proof>>

\* What a string can become on its way: its signature segment lost, with
\* and without the dot before it, its payload lost too, a segment added.
Damaged(s, split) ==
  {split[1] \o <<Chr.dot>> \o split[2],
   split[1] \o <<Chr.dot>> \o split[2] \o <<Chr.dot>>,
   split[1],
   s \o <<Chr.dot>> \o split[3]}

Damage ==
  /\ out.op = "encode"
  /\ wire' \in Damaged(wire, Split(wire, Chr.dot))
  /\ out' = [op |-> "damage"]
  /\ UNCHANGED <<nowMs, token, proof>>

Decode ==
  /\ out.op \in {"encode", "damage"}
  /\ out' = [op |-> "decode", wire |-> wire, intact |-> out.op = "encode",
             built |-> token.ucan, res |-> decode(wire)]
  /\ UNCHANGED <<nowMs, token, wire, proof>>

InitCodec == nowMs = StartMs /\ Idle

NextCodec == BuildForWire \/ Encode \/ Damage \/ Decode

SpecCodec == InitCodec /\ [][NextCodec]_vars

\* The number of dot-separated segments of a string.
SegmentCount(s) == Cardinality({i \in 1..Len(s) : s[i] = Chr.dot}) + 1

\* C5: decode returns a token only for a string of exactly three
\* dot-separated segments; with fewer or more it fails.
C5_DecodeNeedsThreeSegments ==
  (out.op = "decode" /\ out.res.ok) => SegmentCount(out.wire) = 3

\* Two values equal all the way down.
RECURSIVE Same(_, _)
Same(a, b) ==
  /\ a.t = b.t
  /\ CASE a.t = "arr" ->
            /\ Len(a.v) = Len(b.v)
            /\ \A i \in 1..Len(a.v) : Same(a.v[i], b.v[i])
       [] a.t = "obj" ->
            /\ Len(a.v) = Len(b.v)
            /\ \A i \in 1..Len(a.v) :
                 a.v[i][1] = b.v[i][1] /\ Same(a.v[i][2], b.v[i][2])
       [] OTHER -> a.v = b.v

HeaderFields == {Key.alg, Key.typ, Key.uav}

PayloadFields ==
  {Key.aud, Key.exp, Key.fct, Key.iss, Key.nbf, Key.prf, Key.ptc, Key.rsc}

\* C6: decoding the encoding of a token build produced gives a header and a
\* payload equal, field by field, to those build assembled.
C6_DecodeEncodeKeepsFields ==
  (out.op = "decode" /\ out.intact) =>
    /\ out.res.ok
    /\ \A k \in HeaderFields :
         Same(Get(out.res.val.header, k), Get(out.built.header, k))
    /\ \A k \in PayloadFields :
         Same(Get(out.res.val.payload, k), Get(out.built.payload, k))

\* The same of the tokens whose timestamps are numbers.
C6_NumberedKeepsFields ==
  (out.op = "decode" /\ out.intact /\ Exp(out.built).t = "num"
     /\ Nbf(out.built).t = "num") =>
    /\ out.res.ok
    /\ \A k \in HeaderFields :
         Same(Get(out.res.val.header, k), Get(out.built.header, k))
    /\ \A k \in PayloadFields :
         Same(Get(out.res.val.payload, k), Get(out.built.payload, k))

---------------------------------------------------------------------------
(* Delegation chains: tokens built on proofs, assembled and signed by      *)
(* other means, validated and walked                                       *)

\* The longest chain of proofs a token is built on.
MaxChain == 2

\* No keystore signed.
NoSigner == [alg |-> "none", key |-> <<>>]

\* What is known of a token of a chain from the way it was made: who issued
\* it and to whom, the keystore that signed it, whether its prf is junk.
Made(iss, aud, signer) ==
  [iss |-> iss, aud |-> aud, signer |-> signer, junk |-> FALSE]

\* A token at hand with the trail of its chain, its own entry first, and
\* whether a token of the chain was made otherwise than by build.
HeldWith(u, trail, altered) ==
  [some |-> TRUE, ucan |-> u, trail |-> trail, altered |-> altered]

\* Each party addresses the other.
Other(ks) == IF ks = KA THEN DB ELSE DA

Builders == {KA, KB}

BuiltAs(ks, r, below, altered) ==
  /\ r.ok
  /\ token' = HeldWith(r.val,
                       <<Made(Get(r.val.payload, Key.iss).v, Other(ks), ks)>> \o below,
                       altered)
  /\ out' = [op |-> "build"]

\* KA issues a token of its own authority.
BuildRoot ==
  /\ ~token.some
  /\ proof.links = 0
  /\ BuiltAs(KA, build(KA, nowMs, Params(Other(KA))), <<>>, FALSE)
  /\ UNCHANGED <<nowMs, wire, proof>>

\* A party builds on the proof at hand.
BuildOnProof ==
  /\ ~token.some
  /\ proof.links > 0
  /\ \E ks \in Builders :
       BuiltAs(ks,
               build(ks, nowMs, [Params(Other(ks)) EXCEPT !.proof = proof.str]),
               proof.ucan.trail, proof.ucan.altered)
  /\ UNCHANGED <<nowMs, wire, proof>>

\* The object with the value of a member replaced.
WithMember(obj, key, value) ==
  JObj([i \in 1..Len(obj.v) |->
          IF obj.v[i][1] = key THEN <<key, value>> ELSE obj.v[i]])

Resigned(ks, header, payload, trail) ==
  /\ token' = HeldWith(Signed(ks, TRUE, header, payload),
                       <<[trail[1] EXCEPT !.signer = ks]>> \o Tail(trail), TRUE)
  /\ out' = [op |-> "sign"]

\* The header and payload of the token are signed again with sign(): by
\* its issuer under a header that names the other algorithm, or by the
\* other party.
SignAgain ==
  /\ token.some
  /\ ~token.altered
  /\ \E ks \in Builders :
       Resigned(ks,
                IF ks = token.trail[1].signer
                THEN WithMember(token.ucan.header, Key.alg,
                                jwtAlgorithm(IF ks.alg = "rsa" THEN "ed25519" ELSE "rsa"))
                ELSE token.ucan.header,
                token.ucan.payload, token.trail)
  /\ UNCHANGED <<nowMs, wire, proof>>

\* The token as build makes it with addSignature false.
Unsigned ==
  /\ token.some
  /\ ~token.altered
  /\ token' = HeldWith([token.ucan EXCEPT !.signature = JNull],
                       <<[token.trail[1] EXCEPT !.signer = NoSigner]>>
                         \o Tail(token.trail), TRUE)
  /\ out' = [op |-> "unsign"]
  /\ UNCHANGED <<nowMs, wire, proof>>

\* A string that is no token: its second segment is no JSON.
Junk == JStr(<<Chr.zero, Chr.dot, Chr.zero, Chr.dot, Chr.zero>>)

\* The issuer signs its payload with a prf that is no token.
Splice ==
  /\ token.some
  /\ ~token.altered
  /\ token' = HeldWith(Signed(token.trail[1].signer, TRUE, token.ucan.header,
                              WithMember(token.ucan.payload, Key.prf, Junk)),
                       <<[token.trail[1] EXCEPT !.junk = TRUE]>>, TRUE)
  /\ out' = [op |-> "splice"]
  /\ UNCHANGED <<nowMs, wire, proof>>

\* The token is encoded and handed on as a proof.
Delegate ==
  /\ token.some
  /\ proof.links < MaxChain
  /\ proof' = [str |-> JStr(encode(token.ucan)), ucan |-> token,
               links |-> proof.links + 1]
  /\ token' = NoToken
  /\ out' = [op |-> "delegate"]
  /\ UNCHANGED <<nowMs, wire>>

IsValid ==
  /\ token.some
  /\ out' = [op |-> "isValid", ucan |-> token.ucan, trail |-> token.trail,
             res |-> isValid(token.ucan)]
  /\ UNCHANGED <<nowMs, token, wire, proof>>

RootIssuer ==
  /\ token.some
  /\ out' = [op |-> "rootIssuer", ucan |-> token.ucan, trail |-> token.trail,
             res |-> rootIssuer(JStr(encode(token.ucan)), 0)]
  /\ UNCHANGED <<nowMs, token, wire, proof>>

Init == nowMs = StartMs /\ Idle

Next ==
  \/ BuildRoot
  \/ BuildOnProof
  \/ SignAgain
  \/ Unsigned
  \/ Splice
  \/ Delegate
  \/ IsValid
  \/ RootIssuer

Spec == Init /\ [][Next]_vars

\* The token of this entry was signed by the keystore of its issuer.
SignedByIssuer(e) == e.signer \in Builders /\ write(e.signer).val = e.iss

\* Every token of the chain is signed by its issuer, every proof is a
\* token, and every proof is addressed to the issuer of the token it backs.
SoundChain(trail) ==
  \A i \in 1..Len(trail) :
    /\ SignedByIssuer(trail[i])
    /\ ~trail[i].junk
    /\ i < Len(trail) => trail[i + 1].aud = trail[i].iss

\* C1: isValid returns true exactly when the signature verifies at every
\* level of the chain and every proof's aud is the iss of the token that
\* carries it; a chain whose one link has another aud validates false with
\* every signature valid.
C1_ValidIffSignedAndContinuous ==
  out.op = "isValid" =>
    ((out.res.ok /\ out.res.val) <=> SoundChain(out.trail))

\* isValid returned false of a chain of two tokens, each signed by its
\* issuer, whose proof is addressed to another party than the issuer.
C1_Witness ==
  /\ out.op = "isValid"
  /\ out.res.ok
  /\ ~out.res.val
  /\ Len(out.trail) = 2
  /\ \A i \in 1..2 : SignedByIssuer(out.trail[i]) /\ ~out.trail[i].junk
  /\ out.trail[2].aud # out.trail[1].iss

Accepted == out.op = "isValid" /\ out.res.ok /\ out.res.val

\* C4 as claimed: a token isValid accepts has a header whose alg is the
\* algorithm its signature was checked with, that of its issuer's key.
C4_HeaderAlgorithmDecides ==
  Accepted =>
    StrictEq(Get(out.ucan.header, Key.alg),
             jwtAlgorithm(didToPublicKey(Iss(out.ucan).v).type))

\* C4 as amended: a token isValid accepts carries the signature of the
\* keystore whose key and key type payload.iss encodes, whatever algorithm
\* its header names.
C4_SignedWithIssuerKey ==
  Accepted =>
    /\ out.ucan.signature.t = "str"
    /\ didToPublicKey(Iss(out.ucan).v).ok
    /\ didToPublicKey(Iss(out.ucan).v).type = out.trail[1].signer.alg
    /\ didToPublicKey(Iss(out.ucan).v).publicKey =
         ksPublicWriteKey(out.trail[1].signer)

\* A token was accepted whose header names RS256 and whose issuer signed
\* it with an ed25519 key.
C4_Witness ==
  /\ Accepted
  /\ Get(out.ucan.header, Key.alg).v = Str_RS256
  /\ out.trail[1].signer = KA

\* C7: rootIssuer returns the iss of the first payload of the chain without
\* a proof, and when the payload d levels down does not parse it fails with
\* the error that names d.
C7_RootIssuerFollowsProofs ==
  out.op = "rootIssuer" =>
    IF out.trail[Len(out.trail)].junk
    THEN ~out.res.ok /\ out.res.err = "InvalidUCAN" /\ out.res.level = Len(out.trail)
    ELSE /\ out.res.ok
         /\ StrictEq(out.res.val, JStr(out.trail[Len(out.trail)].iss))
         /\ out.res.level = Len(out.trail) - 1

\* rootIssuer failed two levels down.
C7_Witness ==
  /\ out.op = "rootIssuer"
  /\ ~out.res.ok
  /\ out.res.level = 2
  /\ Len(out.trail) = 2

\* The most calls a walk of a chain may make.
DepthLimit == MaxChain

\* C8: isValid and rootIssuer stop at a maximum depth: a walk makes no more
\* calls than the limit however long the chain.
C8_WalkStopsAtLimit ==
  /\ out.op = "isValid" => out.res.calls <= DepthLimit
  /\ out.op = "rootIssuer" => out.res.level + 1 <= DepthLimit

===========================================================================
